---- MODULE Spec2Model ----
(***************************************************************************)
(* The mock booking tools of SaudiaReservationAgent (src/main.py) and the  *)
(* entrypoint coroutine shared by the three workers (src/main.py,          *)
(* src/LufthansaReservationAgent.py, src/pizza_comb_agent.py).             *)
(*                                                                         *)
(* Python str values are TLA+ strings (TLC evaluates Len, SubSeq and \o on *)
(* them), restricted to printable ASCII.  Python's None is the value None  *)
(* below, which no argument domain contains as a str.  A tool call ends in *)
(* Return(record) or Raise(exception).                                     *)
(***************************************************************************)
EXTENDS Integers, Sequences, FiniteSets, TLC

VARIABLES
    hashSeed,   \* the process's str-hash key (PYTHONHASHSEED), fixed per run
    now,        \* the UTC wall clock, in microseconds past Epoch
    phase,      \* "idle": no tool call in progress; "done": a call returned
    last,       \* the tool call that returned last: [tool, args, omitted, result]
    memo,       \* an earlier call of this run, kept to compare with a later one
    issued,     \* the booking ids returned so far by book_flight/hotel/cab
    pc,         \* per worker: the position of its entrypoint coroutine
    connected,  \* per worker: ctx.connect() has completed
    built,      \* per worker: the AgentSession object exists
    present,    \* per worker: a remote participant is in the room now
    joined      \* per worker: a participant has been in the room at some time

vars == <<hashSeed, now, phase, last, memo, issued,
          pc, connected, built, present, joined>>
toolVars == <<hashSeed, now, phase, last, memo, issued>>
workerVars == <<pc, connected, built, present, joined>>

----------------------------------------------------------------------------
(* Bounds of the model *)

MaxLen == 4         \* longest origin / city text drawn letter by letter
MaxIds == 2         \* longest booking_ids list
MaxClock == 1       \* the clock advances at most this many microseconds
HashBits == 12      \* width of the modelled str hash (CPython: 64)

----------------------------------------------------------------------------
(* Python values *)

None == "<None>"

Min(a, b) == IF a < b THEN a ELSE b
Max(a, b) == IF a > b THEN a ELSE b

Return(v) == [outcome |-> "return", value |-> v]
Raise(e) == [outcome |-> "raise", exc |-> e]

\* bool(x) of an Optional[str]
Truthy(x) == x # None /\ x # ""

\* the mutated `x or d`: the default is never substituted
OrKeepsFalsy(x, d) == x

\* the mutated `x or d`: only None is replaced, "" is kept
OrOnlyForNone(x, d) == IF x = None THEN d ELSE x

\* x or d
Or(x, d) == IF Truthy(x) THEN x ELSE d

\* f"{x}" of an Optional[str]
Fmt(x) == IF x = None THEN "None" ELSE x

Digits == "0123456789"
Digit(d) == SubSeq(Digits, d + 1, d + 1)

RECURSIVE NatStr(_)
NatStr(n) == IF n < 10 THEN Digit(n) ELSE NatStr(n \div 10) \o Digit(n % 10)

\* f"{n}" of an int
IntStr(n) == IF n < 0 THEN "-" \o NatStr(-n) ELSE NatStr(n)

RECURSIVE Zeros(_)
Zeros(k) == IF k <= 0 THEN "" ELSE "0" \o Zeros(k - 1)

\* f"{n:0wd}" of an int n >= 0
ZeroPad(n, w) == Zeros(w - Len(NatStr(n))) \o NatStr(n)

\* f"{x}" of a float, the float given as its number of tenths
FloatStr(t) ==
    LET a == IF t < 0 THEN -t ELSE t
    IN (IF t < 0 THEN "-" ELSE "") \o NatStr(a \div 10) \o "." \o Digit(a % 10)

LowerLetters == "abcdefghijklmnopqrstuvwxyz"
UpperLetters == "ABCDEFGHIJKLMNOPQRSTUVWXYZ"

\* position of the one-character string c in s, 0 when absent
Index(s, c) ==
    IF \E i \in 1..Len(s) : SubSeq(s, i, i) = c
    THEN CHOOSE i \in 1..Len(s) : SubSeq(s, i, i) = c
    ELSE 0

UpperChar(c) ==
    LET i == Index(LowerLetters, c)
    IN IF i = 0 THEN c ELSE SubSeq(UpperLetters, i, i)
LowerChar(c) ==
    LET i == Index(UpperLetters, c)
    IN IF i = 0 THEN c ELSE SubSeq(LowerLetters, i, i)

\* the first i characters of s, uppercased
RECURSIVE UpperTo(_, _)
UpperTo(s, i) ==
    IF i = 0 THEN "" ELSE UpperTo(s, i - 1) \o UpperChar(SubSeq(s, i, i))

\* s.upper()
Upper(s) == UpperTo(s, Len(s))

\* the first i characters of s, lowercased
RECURSIVE LowerTo(_, _)
LowerTo(s, i) ==
    IF i = 0 THEN "" ELSE LowerTo(s, i - 1) \o LowerChar(SubSeq(s, i, i))

\* s.lower()
Lower(s) == LowerTo(s, Len(s))

\* s.capitalize()
Capitalize(s) ==
    IF s = "" THEN ""
    ELSE UpperChar(SubSeq(s, 1, 1)) \o Lower(SubSeq(s, 2, Len(s)))

\* s[:k]
Prefix(s, k) == SubSeq(s, 1, Min(k, Len(s)))

\* s[-k:]
Suffix(s, k) == SubSeq(s, Max(1, Len(s) - k + 1), Len(s))

\* the first i characters of s without the occurrences of c
RECURSIVE RemoveTo(_, _, _)
RemoveTo(s, c, i) ==
    IF i = 0 THEN ""
    ELSE RemoveTo(s, c, i - 1)
             \o (IF SubSeq(s, i, i) = c THEN "" ELSE SubSeq(s, i, i))

\* s.replace(c, '') for a one-character c
Remove(s, c) == RemoveTo(s, c, Len(s))

\* sep.join(list)
RECURSIVE Join(_, _)
Join(sep, list) ==
    IF list = <<>> THEN ""
    ELSE IF Len(list) = 1 THEN list[1]
    ELSE list[1] \o sep \o Join(sep, Tail(list))

\* str(list) of a list of str without quotes or escapes
ListStr(list) == "[" \o Join(", ", [i \in 1..Len(list) |-> "'" \o list[i] \o "'"]) \o "]"

\* t in s
Contains(s, t) ==
    \E i \in 1..(Len(s) - Len(t) + 1) : SubSeq(s, i, i + Len(t) - 1) = t

EndsWith(s, t) == t = "" \/ (Len(t) <= Len(s) /\ Suffix(s, Len(t)) = t)

Printable ==
    " '(),-.:@[]_0123456789ABCDEFGHIJKLMNOPQRSTUVWXYZabcdefghijklmnopqrstuvwxyz"

\* ord(c), up to a renumbering of the printable characters
Ord(c) == Index(Printable, c)

\* hash(s) of a str under the process's key: a keyed fold of the characters
\* to a signed HashBits-bit integer; hash("") is 0 under every key
RECURSIVE HashFold(_, _, _)
HashFold(key, s, i) ==
    IF i = 0 THEN (key * 1009 + 17) % (2 ^ HashBits)
    ELSE (HashFold(key, s, i - 1) * 31 + Ord(SubSeq(s, i, i)) + 7) % (2 ^ HashBits)
HashUnder(key, s) ==
    IF s = "" THEN 0
    ELSE LET h == HashFold(key, s, Len(s))
         IN IF h >= 2 ^ (HashBits - 1) THEN h - 2 ^ HashBits ELSE h

\* the mutated key: drawn anew as time passes instead of once per process
HashKeyPerInstant == hashSeed + now

\* the key hash() uses: set when the process starts
HashKey == hashSeed

\* hash(s)
Hash(s) == HashUnder(HashKey, s)

Epoch == "2025-06-01T00:00:00"

\* datetime.isoformat(): the fraction is left out when it is zero
Isoformat(t) ==
    IF t % 1000000 = 0 THEN Epoch
    ELSE Epoch \o "." \o ZeroPad(t % 1000000, 6)

----------------------------------------------------------------------------
(* The tools of SaudiaReservationAgent.  Each operator is the body of the  *)
(* method of the same name, applied to the bound parameter values.         *)

current_time(t) == Return(Isoformat(t))

\* the mutated flight id: the destination is not uppercased
flight_id_destination_as_given(origin, destination) ==
    "FL-" \o Upper(Prefix(origin, 3)) \o Prefix(destination, 3) \o "123"

\* the mutated flight id: the whole origin instead of its first 3 characters
flight_id_whole_origin(origin, destination) ==
    "FL-" \o Upper(origin) \o Upper(Prefix(destination, 3)) \o "123"

flight_id(origin, destination) ==
    "FL-" \o Upper(Prefix(origin, 3)) \o Upper(Prefix(destination, 3)) \o "123"

book_flight(origin, destination, departure_date, return_date, passenger_count, class_type0) ==
    LET class_type == Or(class_type0, "economy")
        booked == "Flight booked from " \o origin \o " to " \o destination
                      \o " on " \o departure_date \o " for "
                      \o IntStr(passenger_count) \o " passenger(s) in "
                      \o Fmt(class_type) \o " class. "
        back == IF Truthy(return_date)
                THEN "Return flight on " \o return_date \o ". "
                ELSE ""
        summary == booked \o back \o "Booking ID is "
                       \o flight_id(origin, destination) \o "."
    IN Return([flight_id |-> flight_id(origin, destination),
               status |-> "confirmed",
               summary |-> summary])

\* the mutated hotel id: the city is cut to 2 characters
hotel_id_two_characters(city) == "HT-" \o Upper(Prefix(city, 2)) \o "567"

hotel_id(city) == "HT-" \o Upper(Prefix(city, 3)) \o "567"

book_hotel(city, check_in_date, check_out_date, guests, hotel_type0) ==
    LET hotel_type == Or(hotel_type0, "3-star")
        summary == Capitalize(hotel_type) \o " hotel booked in " \o city
                       \o " from " \o check_in_date \o " to " \o check_out_date
                       \o " for " \o IntStr(guests) \o " guest(s). Booking ID is "
                       \o hotel_id(city) \o "."
    IN IF hotel_type = None
       THEN Raise("AttributeError")   \* None has no capitalize
       ELSE Return([hotel_id |-> hotel_id(city),
                    status |-> "confirmed",
                    summary |-> summary])

cab_id(city, pickup_time) ==
    "CB-" \o Upper(Prefix(city, 3)) \o Remove(Suffix(pickup_time, 4), ":")

book_cab(city, pickup_location, dropoff_location, pickup_time, passengers, cab_type0) ==
    LET cab_type == Or(cab_type0, "standard")
        summary == Capitalize(cab_type) \o " cab booked in " \o city
                       \o " from " \o pickup_location \o " to " \o dropoff_location
                       \o " at " \o pickup_time \o " for " \o IntStr(passengers)
                       \o " passenger(s). Booking ID is "
                       \o cab_id(city, pickup_time) \o "."
    IN IF cab_type = None
       THEN Raise("AttributeError")   \* None has no capitalize
       ELSE Return([cab_id |-> cab_id(city, pickup_time),
                    status |-> "confirmed",
                    summary |-> summary])

meal_pref_id(flight, meal_type) ==
    "MP-" \o Suffix(flight, 3) \o ZeroPad(Hash(meal_type) % 1000, 3)

\* the mutated select_meal: a flight no book_flight call returned is refused
select_meal_checks_flight(flight, meal_type, dietary_restrictions, special_requests, passenger_name) ==
    IF flight \in issued
    THEN Return([meal_preference_id |-> meal_pref_id(flight, meal_type),
                 flight_id |-> flight,
                 meal_type |-> meal_type,
                 dietary_restrictions |-> dietary_restrictions,
                 special_requests |-> special_requests,
                 status |-> "confirmed",
                 summary |-> "Meal preference set."])
    ELSE Return([meal_preference_id |-> "",
                 flight_id |-> flight,
                 meal_type |-> meal_type,
                 dietary_restrictions |-> dietary_restrictions,
                 special_requests |-> special_requests,
                 status |-> "not_found",
                 summary |-> "No such flight."])

select_meal(flight, meal_type, dietary_restrictions, special_requests, passenger_name) ==
    LET meal_summary == meal_type \o " meal"
                            \o (IF Truthy(dietary_restrictions)
                                THEN " (" \o dietary_restrictions \o ")"
                                ELSE "")
        passenger_info == IF Truthy(passenger_name)
                          THEN " for " \o passenger_name
                          ELSE ""
        summary == "Meal preference set to " \o meal_summary \o " for flight "
                       \o flight \o passenger_info \o ". Preference ID: "
                       \o meal_pref_id(flight, meal_type) \o "."
                       \o (IF Truthy(special_requests)
                           THEN " Special request noted: " \o special_requests \o "."
                           ELSE "")
    IN Return([meal_preference_id |-> meal_pref_id(flight, meal_type),
               flight_id |-> flight,
               meal_type |-> meal_type,
               dietary_restrictions |-> dietary_restrictions,
               special_requests |-> special_requests,
               status |-> "confirmed",
               summary |-> summary])

payment_id(booking_ids) ==
    "PY-" \o ZeroPad(Hash(ListStr(booking_ids)) % 10000, 4)

\* the mutated join: the ids are joined by "," without the space
booking_ids_str_no_space(booking_ids) == Join(",", booking_ids)

booking_ids_str(booking_ids) == Join(", ", booking_ids)

\* the mutated customer text: the email is added whether or not a name is given
customer_info_email_alone(customer_name, email) ==
    (IF Truthy(customer_name) THEN " for " \o customer_name ELSE "")
        \o (IF Truthy(email) THEN " (" \o email \o ")" ELSE "")

\* what lines 194-198 append to the summary
customer_info(customer_name, email) ==
    IF Truthy(customer_name)
    THEN " for " \o customer_name
             \o (IF Truthy(email) THEN " (" \o email \o ")" ELSE "")
    ELSE ""

process_payment(booking_ids, payment_method, amount, currency, customer_name, email) ==
    LET summary == "Payment of " \o FloatStr(amount) \o " " \o currency
                       \o " processed successfully via " \o payment_method
                       \o " for booking(s): " \o booking_ids_str(booking_ids)
                       \o ". Payment ID: " \o payment_id(booking_ids) \o "."
                       \o customer_info(customer_name, email)
    IN Return([payment_id |-> payment_id(booking_ids),
               status |-> "confirmed",
               amount |-> amount,
               currency |-> currency,
               booking_ids |-> booking_ids,
               summary |-> summary])

----------------------------------------------------------------------------
(* Argument domains *)

RECURSIVE StringsUpTo(_, _)
StringsUpTo(chars, n) ==
    IF n = 0 THEN {""}
    ELSE LET S == StringsUpTo(chars, n - 1)
         IN S \cup {s \o c : s \in S, c \in chars}

RECURSIVE ListsUpTo(_, _)
ListsUpTo(pool, n) ==
    IF n = 0 THEN {<<>>}
    ELSE LET S == ListsUpTo(pool, n - 1)
         IN S \cup {Append(l, x) : l \in S, x \in pool}

\* a parameter with a default binds the value passed or, left out, the
\* default; D.omit says whether calls that leave arguments out are drawn
Bindings(D, dom, default) ==
    {b \in ({"passed"} \X dom) \cup {<<"omitted", default>>} :
        b[1] = "passed" \/ D.omit}

Omitted(bs) == {n \in DOMAIN bs : bs[n][1] = "omitted"}

Seeds == {0, 1}

Wide == [
    omit         |-> TRUE,
    origins      |-> StringsUpTo({"n", "Y"}, MaxLen),
    destinations |-> StringsUpTo({"l"}, MaxLen),
    dates        |-> {"", "2025-06-01"},
    checkins     |-> {"", "2025-06-01"},
    stays        |-> {"", "2025-06-05"},
    returns      |-> {"", "2025-06-09"},
    counts       |-> {-1, 0, 2},
    classes      |-> {None, "", "Business"},
    cities       |-> StringsUpTo({"r", "M"}, MaxLen),
    hotels       |-> {None, "", "5-STAR"},
    cabCities    |-> {"", "jd", "Jeddah"},
    places       |-> {"", "Airport"},
    times        |-> {"", "9:5", "10:30", "2025-06-01 10:30"},
    cabs         |-> {None, "", "sUV"},
    flightIds    |-> {"", "X1", "FL-NYCLAX123"},
    meals        |-> {"", "veg", "Halal"},
    notes        |-> {"", "no nuts"},
    idLists      |-> ListsUpTo({"", "FL-1", "HT-1"}, MaxIds),
    methods      |-> {"", "card"},
    amounts      |-> {-5, 0, 1000},
    currencies   |-> {"", "USD"},
    people       |-> {"", "Ann"},
    emails       |-> {"", "a@b.c"} ]

Narrow == [
    omit         |-> FALSE,
    origins      |-> {"NYC", "nycity"},
    destinations |-> {"LAX"},
    dates        |-> {"2025-06-01", "2025-07-01"},
    checkins     |-> {"2025-06-01"},
    stays        |-> {"2025-06-05", "2025-06-09"},
    returns      |-> {None, "2025-06-09"},
    counts       |-> {1, 2},
    classes      |-> {"economy", "first"},
    cities       |-> {"Paris", "PARma"},
    hotels       |-> {"3-star", "5-star"},
    cabCities    |-> {"Jeddah"},
    places       |-> {"Airport"},
    times        |-> {"10:30"},
    cabs         |-> {"standard"},
    flightIds    |-> {"FL-NYCLAX123"},
    meals        |-> {"veg", "Halal"},
    notes        |-> {None},
    idLists      |-> {<<"FL-NYCLAX123", "HT-PAR567">>, <<"HT-PAR567">>},
    methods      |-> {"card"},
    amounts      |-> {1000},
    currencies   |-> {"SAR"},
    people       |-> {None},
    emails       |-> {None} ]

----------------------------------------------------------------------------
(* Tool calls: the framework invokes the tool the language model named,    *)
(* the tool returns (or raises), and the result is delivered to the model. *)

NoCall == [tool |-> "none"]

\* the booking ids a call refers to
Refs(tool, args) ==
    CASE tool = "select_meal" -> {args.flight_id}
      [] tool = "process_payment" -> {args.booking_ids[i] : i \in DOMAIN args.booking_ids}
      [] OTHER -> {}

\* the booking id a returned call gives out
Gives(call) ==
    IF call.result.outcome # "return" THEN {}
    ELSE CASE call.tool = "book_flight" -> {call.result.value.flight_id}
           [] call.tool = "book_hotel" -> {call.result.value.hotel_id}
           [] call.tool = "book_cab" -> {call.result.value.cab_id}
           [] OTHER -> {}

\* the log line of a call that returned a record
LogLine(result) == IF result.outcome = "return" THEN result.value.summary ELSE ""

Returned(tool, args, omitted, result, logged) ==
    /\ phase' = "done"
    /\ last' = [tool |-> tool, args |-> args, omitted |-> omitted,
                known |-> Refs(tool, args) \subseteq issued,
                result |-> result, logged |-> logged]
    /\ UNCHANGED <<hashSeed, now, memo, issued, workerVars>>

CurrentTime ==
    /\ phase = "idle"
    /\ Returned("current_time", <<>>, {}, current_time(now),
                "Current UTC time is " \o Isoformat(now))

BookFlight(D) ==
    /\ phase = "idle"
    /\ \E origin \in D.origins, destination \in D.destinations,
          departure_date \in D.dates,
          return_date \in Bindings(D, D.returns, None),
          passenger_count \in Bindings(D, D.counts, 1),
          class_type \in Bindings(D, D.classes, "economy") :
          LET r == book_flight(origin, destination, departure_date,
                               return_date[2], passenger_count[2], class_type[2])
          IN Returned("book_flight",
                      [origin |-> origin, destination |-> destination,
                       departure_date |-> departure_date,
                       return_date |-> return_date[2],
                       passenger_count |-> passenger_count[2],
                       class_type |-> class_type[2]],
                      Omitted([return_date |-> return_date,
                               passenger_count |-> passenger_count,
                               class_type |-> class_type]),
                      r, LogLine(r))

BookHotel(D) ==
    /\ phase = "idle"
    /\ \E city \in D.cities, check_in_date \in D.checkins,
          check_out_date \in D.stays,
          guests \in Bindings(D, D.counts, 1),
          hotel_type \in Bindings(D, D.hotels, "3-star") :
          LET r == book_hotel(city, check_in_date, check_out_date,
                              guests[2], hotel_type[2])
          IN Returned("book_hotel",
                      [city |-> city, check_in_date |-> check_in_date,
                       check_out_date |-> check_out_date,
                       guests |-> guests[2], hotel_type |-> hotel_type[2]],
                      Omitted([guests |-> guests, hotel_type |-> hotel_type]),
                      r, LogLine(r))

BookCab(D) ==
    /\ phase = "idle"
    /\ \E city \in D.cabCities, pickup_location \in D.places,
          dropoff_location \in D.places, pickup_time \in D.times,
          passengers \in Bindings(D, D.counts, 1),
          cab_type \in Bindings(D, D.cabs, "standard") :
          LET r == book_cab(city, pickup_location, dropoff_location, pickup_time,
                            passengers[2], cab_type[2])
          IN Returned("book_cab",
                      [city |-> city, pickup_location |-> pickup_location,
                       dropoff_location |-> dropoff_location,
                       pickup_time |-> pickup_time,
                       passengers |-> passengers[2], cab_type |-> cab_type[2]],
                      Omitted([passengers |-> passengers, cab_type |-> cab_type]),
                      r, LogLine(r))

SelectMeal(D) ==
    /\ phase = "idle"
    /\ \E flight \in D.flightIds, meal_type \in D.meals,
          dietary_restrictions \in Bindings(D, D.notes, None),
          special_requests \in Bindings(D, D.notes, None),
          passenger_name \in Bindings(D, D.people, None) :
          LET r == select_meal(flight, meal_type,
                               dietary_restrictions[2], special_requests[2],
                               passenger_name[2])
          IN Returned("select_meal",
                      [flight_id |-> flight, meal_type |-> meal_type,
                       dietary_restrictions |-> dietary_restrictions[2],
                       special_requests |-> special_requests[2],
                       passenger_name |-> passenger_name[2]],
                      Omitted([dietary_restrictions |-> dietary_restrictions,
                               special_requests |-> special_requests,
                               passenger_name |-> passenger_name]),
                      r, LogLine(r))

ProcessPayment(D) ==
    /\ phase = "idle"
    /\ \E booking_ids \in D.idLists, payment_method \in D.methods,
          amount \in D.amounts,
          currency \in Bindings(D, D.currencies, "SAR"),
          customer_name \in Bindings(D, D.people, None),
          email \in Bindings(D, D.emails, None) :
          LET r == process_payment(booking_ids, payment_method, amount,
                                   currency[2], customer_name[2], email[2])
          IN Returned("process_payment",
                      [booking_ids |-> booking_ids,
                       payment_method |-> payment_method, amount |-> amount,
                       currency |-> currency[2],
                       customer_name |-> customer_name[2], email |-> email[2]],
                      Omitted([currency |-> currency,
                               customer_name |-> customer_name, email |-> email]),
                      r, LogLine(r))

\* the result goes back to the language model; nothing of the call is kept
Deliver ==
    /\ phase = "done"
    /\ phase' = "idle"
    /\ last' = NoCall
    /\ UNCHANGED <<hashSeed, now, memo, issued, workerVars>>

\* the same, with the observer noting the booking id given out and
\* possibly keeping the call to compare a later one with
DeliverObserved ==
    /\ phase = "done"
    /\ phase' = "idle"
    /\ last' = NoCall
    /\ issued' = issued \cup Gives(last)
    /\ memo' \in {memo, last}
    /\ UNCHANGED <<hashSeed, now, workerVars>>

\* the wall clock advances between calls
Tick ==
    /\ phase = "idle"
    /\ now < MaxClock
    /\ now' = now + 1
    /\ UNCHANGED <<hashSeed, phase, last, memo, issued, workerVars>>

----------------------------------------------------------------------------
(* The entrypoint coroutine of a worker *)

Workers == {"saudia", "lufthansa", "pizza"}

\* await ctx.connect()
Connect(w) ==
    /\ pc[w] = "connect"
    /\ connected' = [connected EXCEPT ![w] = TRUE]
    /\ pc' = [pc EXCEPT ![w] = "build"]
    /\ UNCHANGED <<built, present, joined, toolVars>>

\* session = AgentSession(stt=..., llm=..., tts=..., vad=...)
BuildSession(w) ==
    /\ pc[w] = "build"
    /\ built' = [built EXCEPT ![w] = TRUE]
    /\ pc' = [pc EXCEPT ![w] = "wait"]
    /\ UNCHANGED <<connected, present, joined, toolVars>>

\* the mutated wait: it returns whether or not anyone is in the room
WaitReturnsAtOnce(w) ==
    /\ pc[w] = "wait"
    /\ pc' = [pc EXCEPT ![w] = "start"]
    /\ UNCHANGED <<connected, built, present, joined, toolVars>>

\* await ctx.wait_for_participant(): returns once a participant is in the room
WaitForParticipant(w) ==
    /\ pc[w] = "wait"
    /\ present[w]
    /\ pc' = [pc EXCEPT ![w] = "start"]
    /\ UNCHANGED <<connected, built, present, joined, toolVars>>

\* await session.start(agent=..., room=ctx.room)
StartSession(w) ==
    /\ pc[w] = "start"
    /\ pc' = [pc EXCEPT ![w] = "running"]
    /\ UNCHANGED <<connected, built, present, joined, toolVars>>

\* a framework call raises and the coroutine ends there
Crash(w) ==
    /\ pc[w] \in {"connect", "build", "start"}
    /\ pc' = [pc EXCEPT ![w] = "crashed"]
    /\ UNCHANGED <<connected, built, present, joined, toolVars>>

ParticipantJoins(w) ==
    /\ ~present[w]
    /\ present' = [present EXCEPT ![w] = TRUE]
    /\ joined' = [joined EXCEPT ![w] = TRUE]
    /\ UNCHANGED <<pc, connected, built, toolVars>>

ParticipantLeaves(w) ==
    /\ present[w]
    /\ present' = [present EXCEPT ![w] = FALSE]
    /\ UNCHANGED <<pc, connected, built, joined, toolVars>>

----------------------------------------------------------------------------
(* Specifications *)

InitTools ==
    /\ hashSeed \in Seeds
    /\ now = 0
    /\ phase = "idle"
    /\ last = NoCall
    /\ memo = NoCall
    /\ issued = {}

\* a worker whose session is running, where the tools are called
InitRunning ==
    /\ pc = [w \in Workers |-> "running"]
    /\ connected = [w \in Workers |-> TRUE]
    /\ built = [w \in Workers |-> TRUE]
    /\ present = [w \in Workers |-> TRUE]
    /\ joined = [w \in Workers |-> TRUE]

InitWorkers ==
    /\ pc = [w \in Workers |-> "connect"]
    /\ connected = [w \in Workers |-> FALSE]
    /\ built = [w \in Workers |-> FALSE]
    /\ present = [w \in Workers |-> FALSE]
    /\ joined = [w \in Workers |-> FALSE]

\* single tool calls over the wide argument domains
Init == InitTools /\ InitRunning
Next ==
    \/ CurrentTime
    \/ BookFlight(Wide)
    \/ BookHotel(Wide)
    \/ BookCab(Wide)
    \/ SelectMeal(Wide)
    \/ ProcessPayment(Wide)
    \/ Deliver
Spec == Init /\ [][Next]_vars

\* runs of several tool calls, an earlier call kept for comparison
NextSession ==
    \/ CurrentTime
    \/ BookFlight(Narrow)
    \/ BookHotel(Narrow)
    \/ BookCab(Narrow)
    \/ SelectMeal(Narrow)
    \/ ProcessPayment(Narrow)
    \/ DeliverObserved
    \/ Tick
SpecSession == Init /\ [][NextSession]_vars

\* the three workers' entrypoints
InitEntry == InitTools /\ InitWorkers
NextEntry ==
    \E w \in Workers :
        \/ Connect(w)
        \/ BuildSession(w)
        \/ WaitForParticipant(w)
        \/ StartSession(w)
        \/ Crash(w)
        \/ ParticipantJoins(w)
        \/ ParticipantLeaves(w)
SpecEntry == InitEntry /\ [][NextEntry]_vars

----------------------------------------------------------------------------
(* Properties *)

BookingTools ==
    {"book_flight", "book_hotel", "book_cab", "select_meal", "process_payment"}

Done(tool) == phase = "done" /\ last.tool = tool

First3(s) == IF Len(s) <= 3 THEN s ELSE SubSeq(s, 1, 3)

StartsWith(s, t) == Len(t) <= Len(s) /\ SubSeq(s, 1, Len(t)) = t

\* C1: every call of book_flight, book_hotel, book_cab, select_meal or
\* process_payment, whatever its arguments (empty strings, None, an empty
\* booking_ids list, zero or negative counts, negative amounts), returns a
\* record whose status is "confirmed"; none raises.
C1_AlwaysConfirmed ==
    (phase = "done" /\ last.tool \in BookingTools) =>
        /\ last.result.outcome = "return"
        /\ last.result.value.status = "confirmed"

C1_Witness ==
    /\ Done("book_hotel")
    /\ last.args.city = ""
    /\ last.args.guests = -1
    /\ last.args.hotel_type = None
    /\ last.result.outcome = "return"
    /\ last.result.value.status = "confirmed"

\* C3: book_flight called with origin, destination and departure_date only
\* returns flight_id = "FL-" + the first 3 characters of origin uppercased +
\* the first 3 characters of destination uppercased + "123" (all the
\* characters when there are fewer than 3), and a summary containing the
\* origin, the destination, the departure date, "1 passenger(s)",
\* "economy class" and that flight_id.
C3_DefaultFlight ==
    (Done("book_flight")
        /\ last.omitted = {"return_date", "passenger_count", "class_type"}) =>
        /\ last.result.outcome = "return"
        /\ LET a == last.args
               v == last.result.value
           IN /\ v.flight_id = "FL-" \o Upper(First3(a.origin))
                                     \o Upper(First3(a.destination)) \o "123"
              /\ Contains(v.summary, a.origin)
              /\ Contains(v.summary, a.destination)
              /\ Contains(v.summary, a.departure_date)
              /\ Contains(v.summary, "1 passenger(s)")
              /\ Contains(v.summary, "economy class")
              /\ Contains(v.summary, v.flight_id)

C3_Witness ==
    /\ Done("book_flight")
    /\ last.omitted = {"return_date", "passenger_count", "class_type"}
    /\ last.args.origin = "nYnY"
    /\ last.args.destination = "ll"
    /\ last.args.departure_date = "2025-06-01"
    /\ last.result.value.flight_id = "FL-NYNLL123"

\* C4: book_hotel returns hotel_id = "HT-" + the first 3 characters of city
\* uppercased + "567" and a summary containing "from <check_in> to
\* <check_out>", "<guests> guest(s)" and that hotel_id.
C4_Hotel ==
    Done("book_hotel") =>
        /\ last.result.outcome = "return"
        /\ LET a == last.args
               v == last.result.value
           IN /\ v.hotel_id = "HT-" \o Upper(First3(a.city)) \o "567"
              /\ Contains(v.summary, "from " \o a.check_in_date
                                         \o " to " \o a.check_out_date)
              /\ Contains(v.summary, IntStr(a.guests) \o " guest(s)")
              /\ Contains(v.summary, v.hotel_id)

C4_Witness ==
    /\ Done("book_hotel")
    /\ last.args.city = "rMrM"
    /\ last.args.check_in_date = "2025-06-01"
    /\ last.args.check_out_date = "2025-06-05"
    /\ last.args.guests = 2
    /\ last.result.value.hotel_id = "HT-RMR567"
    /\ Contains(last.result.value.summary, "from 2025-06-01 to 2025-06-05 for 2 guest(s)")

\* C5: process_payment's summary lists the booking ids in input order joined
\* by ", " and contains "<amount> <currency>"; the record echoes amount,
\* currency and booking_ids, and the currency is "SAR" when it is left out.
C5_Payment ==
    Done("process_payment") =>
        /\ last.result.outcome = "return"
        /\ LET a == last.args
               v == last.result.value
           IN /\ Contains(v.summary, "booking(s): " \o Join(", ", a.booking_ids) \o ".")
              /\ Contains(v.summary, FloatStr(a.amount) \o " " \o v.currency)
              /\ v.amount = a.amount
              /\ v.currency = a.currency
              /\ v.booking_ids = a.booking_ids
              /\ ("currency" \in last.omitted => v.currency = "SAR")

C5_Witness ==
    /\ Done("process_payment")
    /\ last.args.booking_ids = <<"FL-1", "HT-1">>
    /\ last.args.payment_method = "card"
    /\ last.args.amount = 1000
    /\ last.args.currency = "USD"
    /\ Contains(last.result.value.summary, "booking(s): FL-1, HT-1.")
    /\ Contains(last.result.value.summary, "100.0 USD")

\* C9: a class_type, hotel_type or cab_type that is None or "" gives the
\* record the default ("economy", "3-star", "standard") gives; any other
\* value is used as given, hotel_type and cab_type with the first character
\* uppercased and the rest lowercased.
C9_TypeDefaults ==
    /\ Done("book_flight") =>
           LET a == last.args
           IN IF a.class_type \in {None, ""}
              THEN last.result = book_flight(a.origin, a.destination,
                                             a.departure_date, a.return_date,
                                             a.passenger_count, "economy")
              ELSE /\ last.result.outcome = "return"
                   /\ Contains(last.result.value.summary,
                               " passenger(s) in " \o a.class_type \o " class. ")
    /\ Done("book_hotel") =>
           LET a == last.args
           IN IF a.hotel_type \in {None, ""}
              THEN last.result = book_hotel(a.city, a.check_in_date,
                                            a.check_out_date, a.guests, "3-star")
              ELSE /\ last.result.outcome = "return"
                   /\ StartsWith(last.result.value.summary,
                                 UpperChar(SubSeq(a.hotel_type, 1, 1))
                                     \o Lower(SubSeq(a.hotel_type, 2, Len(a.hotel_type)))
                                     \o " hotel booked in ")
    /\ Done("book_cab") =>
           LET a == last.args
           IN IF a.cab_type \in {None, ""}
              THEN last.result = book_cab(a.city, a.pickup_location,
                                          a.dropoff_location, a.pickup_time,
                                          a.passengers, "standard")
              ELSE /\ last.result.outcome = "return"
                   /\ StartsWith(last.result.value.summary,
                                 UpperChar(SubSeq(a.cab_type, 1, 1))
                                     \o Lower(SubSeq(a.cab_type, 2, Len(a.cab_type)))
                                     \o " cab booked in ")

C9_Witness ==
    /\ Done("book_hotel")
    /\ last.args.hotel_type = ""
    /\ "hotel_type" \notin last.omitted
    /\ last.result.outcome = "return"
    /\ StartsWith(last.result.value.summary, "3-star hotel booked in ")

\* C10: book_flight's summary has "Return flight on <return_date>." exactly
\* when return_date is non-empty and always ends with "Booking ID is
\* <flight_id>."; process_payment's summary has " for <customer_name>"
\* appended exactly when customer_name is non-empty, " (<email>)" only when
\* both are non-empty, and an email without a customer name leaves the
\* summary as it is without the email.
C10_OptionalParts ==
    /\ Done("book_flight") =>
           LET a == last.args
               v == last.result.value
           IN /\ Contains(v.summary, "Return flight on ") <=> Truthy(a.return_date)
              /\ Truthy(a.return_date) =>
                     Contains(v.summary, "Return flight on " \o a.return_date \o ".")
              /\ EndsWith(v.summary, "Booking ID is " \o v.flight_id \o ".")
    /\ Done("process_payment") =>
           LET a == last.args
               v == last.result.value
               stem == "Payment ID: " \o v.payment_id \o "."
           IN /\ Contains(v.summary, stem \o " for ") <=> Truthy(a.customer_name)
              /\ ~Truthy(a.customer_name) => EndsWith(v.summary, stem)
              /\ Truthy(a.customer_name) =>
                     Contains(v.summary, stem \o " for " \o a.customer_name)
              /\ Contains(v.summary, stem \o " (") \/ EndsWith(v.summary, ")") =>
                     Truthy(a.customer_name) /\ Truthy(a.email)
              /\ (Truthy(a.customer_name) /\ Truthy(a.email)) =>
                     EndsWith(v.summary, stem \o " for " \o a.customer_name
                                             \o " (" \o a.email \o ")")
              /\ ~Truthy(a.customer_name) =>
                     v.summary = process_payment(a.booking_ids, a.payment_method,
                                                 a.amount, a.currency,
                                                 a.customer_name, None).value.summary

C10_Witness ==
    /\ Done("process_payment")
    /\ last.args.customer_name = ""
    /\ last.args.email = "a@b.c"
    /\ ~Contains(last.result.value.summary, "a@b.c")
    /\ EndsWith(last.result.value.summary,
                "Payment ID: " \o last.result.value.payment_id \o ".")

\* the call kept and the call that just returned are the same call
SameCall == phase = "done" /\ memo.tool = last.tool /\ memo.args = last.args

\* C2, as claimed: calling any tool (book_flight, book_hotel, book_cab,
\* select_meal, process_payment, current_time) twice with the same arguments
\* in one run, other calls in between, gives the same result.
C2_Original == SameCall => memo.result = last.result

\* C2, amended: two calls of book_flight, book_hotel, book_cab, select_meal
\* or process_payment with the same arguments in one run, other calls in
\* between, give the same record (identifier and summary); current_time
\* returns the clock reading at the moment of the call.
C2_Amended ==
    /\ (SameCall /\ last.tool \in BookingTools) => memo.result = last.result
    /\ Done("current_time") => last.result = Return(Isoformat(now))

C2_Witness ==
    /\ SameCall
    /\ last.tool = "process_payment"
    /\ last.args.booking_ids = <<"FL-NYCLAX123", "HT-PAR567">>
    /\ memo.result.value.payment_id = last.result.value.payment_id
    /\ memo.result.value.summary = last.result.value.summary
    /\ issued # {}
    /\ now > 0

C8_IdsNotUnique ==
    /\ (Done("book_flight") /\ memo.tool = "book_flight"
            /\ Lower(First3(memo.args.origin)) = Lower(First3(last.args.origin))
            /\ Lower(First3(memo.args.destination))
                   = Lower(First3(last.args.destination))) =>
           memo.result.value.flight_id = last.result.value.flight_id
    /\ (Done("book_hotel") /\ memo.tool = "book_hotel"
            /\ Lower(First3(memo.args.city)) = Lower(First3(last.args.city))) =>
           memo.result.value.hotel_id = last.result.value.hotel_id

C8_Witness ==
    /\ Done("book_flight")
    /\ memo.tool = "book_flight"
    /\ memo.args.origin = "NYC"
    /\ last.args.origin = "nycity"
    /\ memo.args.departure_date # last.args.departure_date
    /\ memo.args.return_date # last.args.return_date
    /\ memo.args.passenger_count # last.args.passenger_count
    /\ memo.args.class_type # last.args.class_type
    /\ memo.result.value.flight_id = "FL-NYCLAX123"
    /\ last.result.value.flight_id = "FL-NYCLAX123"

\* C7: in each worker the connection completes before the session object
\* is built, the session object is built before the wait for a participant,
\* and the session is started only after the wait has returned, which it
\* does only once a participant has joined; with no participant ever in
\* the room the session is never started.
C7_EntrypointOrder ==
    \A w \in Workers :
        /\ built[w] => connected[w]
        /\ pc[w] \in {"wait", "start", "running"} => built[w]
        /\ pc[w] \in {"start", "running"} => joined[w]
        /\ pc[w] = "running" => connected[w] /\ built[w] /\ joined[w]
        /\ ~joined[w] => pc[w] # "running"

C7_Witness ==
    /\ pc["saudia"] = "running"
    /\ connected["saudia"] /\ built["saudia"] /\ joined["saudia"]
    /\ pc["lufthansa"] = "wait"
    /\ ~joined["lufthansa"]
    /\ pc["pizza"] = "start"
    /\ ~present["pizza"]

====
